---- MODULE Spec2Model ----
(***************************************************************************)
(* Model of sessions-dash (src/server.py): the cost calculator _cost, the  *)
(* project folder decoder _decode_project_folder and the two aggregation   *)
(* queries compute_usage and compute_sessions over a tree of session log   *)
(* files.                                                                  *)
(*                                                                         *)
(* Conventions                                                             *)
(*   - Money.  The rate cards are written in hundredths of a dollar per    *)
(*     million tokens, so that every rate is an integer; _cost is then an  *)
(*     integer number of 10^-8 dollars, computed exactly (the program      *)
(*     computes the same sum in binary floating point).  round(x, 4) and   *)
(*     round(x, 2) are modelled as rounding to 10^-4 and 10^-2 dollars.    *)
(*   - Time.  An instant is an integer number of ticks since datetime.min, *)
(*     TicksPerDay ticks to a calendar day; the date prefix ts[:10] of an  *)
(*     ISO timestamp and strftime('%Y-%m-%d') are DayOf.                   *)
(*   - Text.  A string the program indexes or splits is a sequence of      *)
(*     one-character strings.  A dict is a sequence of <<key, value>>      *)
(*     entries in insertion order, which is the order Python iterates it.  *)
(***************************************************************************)
EXTENDS Integers, Sequences, FiniteSets, TLC

\* ------------------------------------------------------------------ bounds
\* Largest value of one token counter in a tally given to _cost.
MaxCount == 3

\* Largest value of one token counter in a usage record of the log tree.
MaxTok == 1

\* Largest window, in days, a query is called with.
MaxDays == 3

\* Largest row limit compute_sessions is called with.
MaxLimit == 2

\* Longest folder name drawn freely from the alphabet, and most hyphen
\* separated tokens after the encoded home prefix.
MaxNameLen == 3
MaxParts == 3

\* Most changes another process makes to the log tree while one query runs.
MaxWrites == 2

\* ------------------------------------------------------------ model pricing
Card(i, o, cr, cw) == [input |-> i, output |-> o, cacheRead |-> cr, cacheWrite |-> cw]

\* MODEL_PRICING, in hundredths of a dollar per million tokens.
PricedModels ==
    {"MiniMax-M2.5", "MiniMax-M2.1", "k2p5", "kimi-k2.5", "glm-4.7",
     "claude-opus-4-6", "claude-sonnet-4-6", "claude-sonnet-4-5-20250929",
     "claude-3-5-sonnet-20241022", "claude-3-5-haiku-20241022",
     "claude-haiku-4-5-20251001"}

MODEL_PRICING(model) ==
    CASE model \in {"MiniMax-M2.5", "MiniMax-M2.1"} -> Card(30, 120, 3, 30)
      [] model \in {"k2p5", "kimi-k2.5"} -> Card(60, 250, 10, 60)
      [] model = "glm-4.7" -> Card(60, 220, 11, 60)
      [] model = "claude-opus-4-6" -> Card(1500, 7500, 150, 1500)
      [] model \in {"claude-sonnet-4-6", "claude-sonnet-4-5-20250929",
                    "claude-3-5-sonnet-20241022"} -> Card(300, 1500, 30, 375)
      [] model \in {"claude-3-5-haiku-20241022", "claude-haiku-4-5-20251001"}
           -> Card(80, 400, 8, 80)

DEFAULT_PRICING == Card(100, 500, 10, 100)

\* MODEL_PRICING.get(model, DEFAULT_PRICING)
Rates(model) == IF model \in PricedModels THEN MODEL_PRICING(model) ELSE DEFAULT_PRICING

Max(a, b) == IF a >= b THEN a ELSE b
Min(a, b) == IF a <= b THEN a ELSE b

\* NetInput, below, with a slip of sign in the subtraction.
NetInputSwapped(usage) == Max(0, usage.cacheRead + usage.cacheWrite - usage.input)

\* NetInput, below, without the clamp.
NetInputUnclamped(usage) == usage.input - usage.cacheRead - usage.cacheWrite

\* net_input = max(0, input - cacheRead - cacheWrite)
NetInput(usage) == Max(0, usage.input - usage.cacheRead - usage.cacheWrite)

\* _cost(model, usage), in units of 10^-8 dollars (rate/100 * tokens/10^6).
CostWith(net_input, rates, usage) ==
      net_input * rates.input
    + usage.output * rates.output
    + usage.cacheRead * rates.cacheRead
    + usage.cacheWrite * rates.cacheWrite

_cost(model, usage) == CostWith(NetInput(usage), Rates(model), usage)

\* ------------------------------------------------------------------ strings
\* s.replace(a, b) for one-character a and b
Replace(s, a, b) == [i \in 1..Len(s) |-> IF s[i] = a THEN b ELSE s[i]]

\* s.startswith(p)
StartsWith(s, p) == Len(s) >= Len(p) /\ SubSeq(s, 1, Len(p)) = p

\* s[n:]
DropFirst(s, n) == SubSeq(s, n + 1, Len(s))

\* s.split(sep): the pieces between the separators, empty pieces included
\* (''.split('-') is [''], 'a-'.split('-') is ['a', '']).
RECURSIVE SplitFrom(_, _, _)
SplitFrom(s, sep, piece) ==
    IF s = <<>> THEN <<piece>>
    ELSE IF Head(s) = sep THEN <<piece>> \o SplitFrom(Tail(s), sep, <<>>)
    ELSE SplitFrom(Tail(s), sep, Append(piece, Head(s)))

Split(s, sep) == SplitFrom(s, sep, <<>>)

\* sep.join(parts)
RECURSIVE Join(_, _)
Join(parts, sep) ==
    IF parts = <<>> THEN <<>>
    ELSE IF Len(parts) = 1 THEN parts[1]
    ELSE parts[1] \o <<sep>> \o Join(Tail(parts), sep)

\* The components of a path string: the non-empty pieces between slashes.
Components(path) == SelectSeq(Split(path, "/"), LAMBDA c : c # <<>>)

\* os.path.join(path, name) for a name that holds no slash: one slash between
\* them, so that joining the empty name leaves a trailing slash.
PathJoin(path, name) ==
    IF path # <<>> /\ path[Len(path)] = "/" THEN path \o name
    ELSE path \o <<"/">> \o name

\* os.path.exists(path) on the file system fs, a function from the component
\* lists of the entries that exist to "dir" or "file": the entry exists, and is
\* a directory when the path ends with a slash.
PathExists(fs, path) ==
    /\ Components(path) \in DOMAIN fs
    /\ (path # <<>> /\ path[Len(path)] = "/") => fs[Components(path)] = "dir"

\* os.path.relpath(path, start) for a path below start (or start itself).
RelPath(path, start) ==
    LET rel == DropFirst(Components(path), Len(Components(start))) IN
    IF rel = <<>> THEN <<".">> ELSE Join(rel, "/")

\* ---------------------------------------------------- project path decoder
\* os.path.expanduser('~')
Home == <<"/", "h">>

\* home_encoded = '-' + home.replace('/', '-')[1:]
HomeEncoded == <<"-">> \o DropFirst(Replace(Home, "/", "-"), 1)

\* The prefix below with the separator forgotten.
HomePrefixNoHyphen == HomeEncoded

\* prefix = home_encoded + '-'
HomePrefix == HomeEncoded \o <<"-">>

\* The ends j, i < j <= len(parts), for which parts[i:j] joined by hyphens
\* exists under path.
Matches(fs, parts, i, path) ==
    {j \in (i + 1)..Len(parts) :
        PathExists(fs, PathJoin(path, Join(SubSeq(parts, i + 1, j), "-")))}

SetMax(S) == CHOOSE x \in S : \A y \in S : y <= x

\* The while loop of _decode_project_folder, from position i (parts consumed).
RECURSIVE DecodeLoop(_, _, _, _, _, _)
DecodeLoop(fs, folder_name, parts, i, path, best) ==
    IF i >= Len(parts)
    THEN IF best # <<>> THEN <<"~", "/">> \o RelPath(best, Home) ELSE folder_name
    ELSE IF Matches(fs, parts, i, path) = {}
    THEN LET remaining == Join(SubSeq(parts, i + 1, Len(parts)), "-") IN
         IF path # Home
         THEN <<"~", "/">> \o RelPath(path, Home) \o <<"/">> \o remaining
         ELSE <<"~", "/">> \o remaining
    ELSE LET j == SetMax(Matches(fs, parts, i, path))
             test_path == PathJoin(path, Join(SubSeq(parts, i + 1, j), "-"))
         IN DecodeLoop(fs, folder_name, parts, j, test_path, test_path)

_decode_project_folder(fs, folder_name) ==
    IF folder_name = HomeEncoded THEN <<"~">>
    ELSE IF StartsWith(folder_name, HomePrefix)
    THEN DecodeLoop(fs, folder_name,
                    Split(DropFirst(folder_name, Len(HomePrefix)), "-"), 0, Home, <<>>)
    ELSE folder_name

\* ------------------------------------------------------------------- dicts
\* A dict is the sequence of its <<key, value>> entries in insertion order.
DictKeys(d) == {d[i][1] : i \in DOMAIN d}
DictHas(d, k) == k \in DictKeys(d)
DictGet(d, k) == d[CHOOSE i \in DOMAIN d : d[i][1] = k][2]

\* d[k] = v: in place when k is a key already, at the end otherwise
DictPut(d, k, v) ==
    IF DictHas(d, k)
    THEN [i \in DOMAIN d |-> IF d[i][1] = k THEN <<k, v>> ELSE d[i]]
    ELSE Append(d, <<k, v>>)

\* d.get(k, default)
DictGetOr(d, k, default) == IF DictHas(d, k) THEN DictGet(d, k) ELSE default

\* What a dict holds, whatever the order of its entries.
DictMap(d) == [k \in DictKeys(d) |-> DictGet(d, k)]

RECURSIVE SumSeq(_)
SumSeq(s) == IF s = <<>> THEN 0 ELSE Head(s) + SumSeq(Tail(s))

\* round(x, n) of a non-negative x counted in units, to the nearest multiple of
\* unit (ties to the even multiple), counted in multiples of unit.
Round(x, unit) ==
    LET q == x \div unit
        r == x % unit
    IN IF 2 * r < unit THEN q
       ELSE IF 2 * r > unit THEN q + 1
       ELSE IF q % 2 = 0 THEN q ELSE q + 1

\* The sort below with reverse=True forgotten.
RECURSIVE SortAscInto(_, _, _)
SortAscInto(out, rows, field) ==
    IF rows = <<>> THEN out
    ELSE LET x == Head(rows)
             n == Cardinality({i \in DOMAIN out : out[i][field] <= x[field]})
         IN SortAscInto(SubSeq(out, 1, n) \o <<x>> \o SubSeq(out, n + 1, Len(out)),
                        Tail(rows), field)

SortAsc(rows, field) == SortAscInto(<<>>, rows, field)

\* sorted(rows, key=lambda x: x[field], reverse=True): descending, and stable
\* (rows with equal keys keep their order).
RECURSIVE SortDescInto(_, _, _)
SortDescInto(out, rows, field) ==
    IF rows = <<>> THEN out
    ELSE LET x == Head(rows)
             n == Cardinality({i \in DOMAIN out : out[i][field] >= x[field]})
         IN SortDescInto(SubSeq(out, 1, n) \o <<x>> \o SubSeq(out, n + 1, Len(out)),
                         Tail(rows), field)

SortDesc(rows, field) == SortDescInto(<<>>, rows, field)

\* rows[:limit]: the first limit rows, and for a negative limit all but the
\* last -limit rows.
Slice(rows, limit) ==
    IF limit >= 0 THEN SubSeq(rows, 1, Min(limit, Len(rows)))
    ELSE SubSeq(rows, 1, Max(0, Len(rows) + limit))

\* -------------------------------------------------------------------- time
\* Ticks to a calendar day.
TicksPerDay == 2

\* datetime.now(): the last tick of the third day since datetime.min.
Now == 3 * TicksPerDay - 1

\* strftime('%Y-%m-%d') of an instant, and ts[:10] of an ISO timestamp
DayOf(t) == t \div TicksPerDay

\* cutoff = datetime.now() - timedelta(days=days)
Cutoff(days) == Now - days * TicksPerDay

\* The subtraction raises OverflowError when the result is no datetime
\* (earlier than datetime.min, which is tick 0).
CutoffRaises(days) == Cutoff(days) < 0

\* ------------------------------------------------------------ log records
Counters == {"input", "output", "cacheRead", "cacheWrite"}
Tally(i, o, cr, cw) == [input |-> i, output |-> o, cacheRead |-> cr, cacheWrite |-> cw]
ZeroTally == Tally(0, 0, 0, 0)
AddTally(t, u) == [k \in Counters |-> t[k] + u[k]]

\* A value of the wrong type where the program expects a string, a dict or a
\* number (a number for a string, a string for a dict or a number).
IllTyped == "#illtyped"

\* model.startswith('<')
IsSynthetic(model) == model \in {"<synthetic>"}

\* The order in which the program adds the four counters of a record.
CounterOrder == <<"input", "output", "cacheRead", "cacheWrite">>

\* The counters added before the first ill-typed one stops the record: the
\* tally with that counter and the later ones left out.
AddedBeforeError(tally, bad) ==
    LET first == CHOOSE i \in 1..4 :
                    /\ CounterOrder[i] \in bad
                    /\ \A j \in 1..(i - 1) : CounterOrder[j] \notin bad
    IN [k \in Counters |->
          IF \E j \in 1..(first - 1) : CounterOrder[j] = k THEN tally[k] ELSE 0]

\* RecordEffect, below, with the synthetic models let through.
RecordEffectKeepSynthetic(line) ==
    IF line.message # "dict" THEN [kind |-> "skip"]
    ELSE IF line.usage = "absent" THEN [kind |-> "skip"]
    ELSE LET model == IF line.model # "" THEN line.model
                      ELSE IF line.msgModel = "" THEN "unknown" ELSE line.msgModel
         IN IF model = IllTyped THEN [kind |-> "raise", made |-> FALSE]
            ELSE IF line.usage = IllTyped
            THEN [kind |-> "raise", made |-> TRUE, model |-> model, tally |-> ZeroTally]
            ELSE IF line.bad # {}
            THEN [kind |-> "raise", made |-> TRUE, model |-> model,
                  tally |-> AddedBeforeError(line.tally, line.bad)]
            ELSE [kind |-> "add", model |-> model, tally |-> line.tally]

\* What the part of the loop body shared by the two queries does with a parsed
\* object that carries the usage marker, from msg = entry.get('message', {}):
\*   skip    the record is passed over (continue);
\*   add     its tally is accumulated under its model;
\*   raise   an exception leaves the file's loop; made says whether the model's
\*           bucket was created before it, and tally what was added before it.
RecordEffect(line) ==
    IF line.message # "dict" THEN [kind |-> "skip"]
    ELSE IF line.usage = "absent" THEN [kind |-> "skip"]
    ELSE LET model == IF line.model # "" THEN line.model
                      ELSE IF line.msgModel = "" THEN "unknown" ELSE line.msgModel
         IN IF model = IllTyped THEN [kind |-> "raise", made |-> FALSE]
            ELSE IF IsSynthetic(model) THEN [kind |-> "skip"]
            ELSE IF line.usage = IllTyped
            THEN [kind |-> "raise", made |-> TRUE, model |-> model, tally |-> ZeroTally]
            ELSE IF line.bad # {}
            THEN [kind |-> "raise", made |-> TRUE, model |-> model,
                  tally |-> AddedBeforeError(line.tally, line.bad)]
            ELSE [kind |-> "add", model |-> model, tally |-> line.tally]

\* bucket[model] += tally, the bucket's entry created at zero when missing
Accumulate(bucket, model, tally) ==
    DictPut(bucket, model, AddTally(DictGetOr(bucket, model, ZeroTally), tally))

\* (u['input'] + u['output']) > 0
HasUsage(u) == u.input + u.output > 0

\* The filter below forgotten.
KeepAllModels(bucket) == bucket

\* {m: u for m, u in bucket.items() if (u['input'] + u['output']) > 0}
DropEmptyModels(bucket) == SelectSeq(bucket, LAMBDA e : HasUsage(e[2]))

\* ----------------------------------------------------------- compute_usage
\* UsageLineEffect, below, with the test of the record's own date forgotten.
UsageLineEffectNoDateTest(line, cutoff_day) ==
    IF line.json = "blank" \/ ~line.hasUsage THEN [kind |-> "skip"]
    ELSE IF line.json = "invalid" THEN [kind |-> "skip"]
    ELSE IF line.json = "value" THEN [kind |-> "raise", made |-> FALSE]
    ELSE IF line.ts = IllTyped THEN [kind |-> "raise", made |-> FALSE]
    ELSE RecordEffect(line)

\* What one line does in compute_usage's loop, given the day of the cutoff.
UsageLineEffect(line, cutoff_day) ==
    IF line.json = "blank" \/ ~line.hasUsage THEN [kind |-> "skip"]
    ELSE IF line.json = "invalid" THEN [kind |-> "skip"]
    ELSE IF line.json = "value" THEN [kind |-> "raise", made |-> FALSE]
    ELSE IF line.ts = IllTyped THEN [kind |-> "raise", made |-> FALSE]
    ELSE IF line.ts = "at" /\ DayOf(line.at) < cutoff_day THEN [kind |-> "skip"]
    ELSE RecordEffect(line)

\* day_str = ts[:10] if ts else session_day
DayStr(line, session_day) == IF line.ts = "at" THEN DayOf(line.at) ELSE session_day

\* UsageAdd, below, with the day's counters of the model set to the record's
\* tally where the program adds it to them.
UsageAddDaySet(acc, day, model, to_model, to_day) ==
    [acc EXCEPT
        !.by_model = Accumulate(@, model, to_model),
        !.by_day = DictPut(@, day, DictPut(DictGetOr(@, day, <<>>), model, to_day))]

\* The two accumulations of one record: by_model[model] and by_day[day][model].
UsageAdd(acc, day, model, to_model, to_day) ==
    [acc EXCEPT
        !.by_model = Accumulate(@, model, to_model),
        !.by_day = DictPut(@, day, Accumulate(DictGetOr(@, day, <<>>), model, to_day))]

\* for line in f: ..., until the lines end or an exception leaves the loop.
RECURSIVE UsageLines(_, _, _, _)
UsageLines(acc, lines, cutoff_day, session_day) ==
    IF lines = <<>> THEN acc
    ELSE LET line == Head(lines)
             e == UsageLineEffect(line, cutoff_day)
             day == DayStr(line, session_day)
         IN IF e.kind = "skip" THEN UsageLines(acc, Tail(lines), cutoff_day, session_day)
            ELSE IF e.kind = "add"
            THEN UsageLines(UsageAdd(acc, day, e.model, e.tally, e.tally),
                            Tail(lines), cutoff_day, session_day)
            ELSE IF e.made THEN UsageAdd(acc, day, e.model, e.tally, ZeroTally)
            ELSE acc

\* The body of the loop over the session files, with its try/except: a file
\* that is gone fails getmtime and is passed over, a file older than the cutoff
\* is passed over, any other file counts as a session of the day it was
\* modified, and its lines are read if it can be opened.
UsageFile(acc, file, cutoff) ==
    IF file.state = "gone" THEN acc
    ELSE IF file.mtime < cutoff THEN acc
    ELSE LET session_day == DayOf(file.mtime)
             counted == [acc EXCEPT !.sessions_by_day =
                            DictPut(@, session_day, DictGetOr(@, session_day, 0) + 1)]
         IN IF file.state = "unreadable" THEN counted
            ELSE UsageLines(counted, file.lines, DayOf(cutoff), session_day)

RECURSIVE UsageFiles(_, _, _)
UsageFiles(acc, files, cutoff) ==
    IF files = <<>> THEN acc
    ELSE UsageFiles(UsageFile(acc, Head(files), cutoff), Tail(files), cutoff)

\* for project_folder in os.listdir(claude_dir): entries that are no directory
\* are passed over.
RECURSIVE UsageProjects(_, _, _)
UsageProjects(acc, projects, cutoff) ==
    IF projects = <<>> THEN acc
    ELSE LET p == Head(projects) IN
         UsageProjects(IF p.kind = "dir" THEN UsageFiles(acc, p.files, cutoff) ELSE acc,
                       Tail(projects), cutoff)

EmptyAcc == [by_model |-> <<>>, by_day |-> <<>>, sessions_by_day |-> <<>>]

\* usage['estimatedCost'] = round(_cost(model, usage), 4), in 10^-4 dollars
WithCost(bucket) ==
    [i \in DOMAIN bucket |->
        <<bucket[i][1],
          [input |-> bucket[i][2].input, output |-> bucket[i][2].output,
           cacheRead |-> bucket[i][2].cacheRead, cacheWrite |-> bucket[i][2].cacheWrite,
           estimatedCost |-> Round(_cost(bucket[i][1], bucket[i][2]), 10000)]>>]

\* The list of day buckets before it is sorted: one for every day of by_day
\* whose dict of models is not empty, with the models that have usage.
DayBuckets(by_day, sessions_by_day) ==
    LET kept == SelectSeq(by_day, LAMBDA e : e[2] # <<>>) IN
    [i \in DOMAIN kept |->
        [date |-> kept[i][1], models |-> DropEmptyModels(kept[i][2]),
         sessions |-> DictGetOr(sessions_by_day, kept[i][1], 0)]]

\* What the queries return when they return: every field of either result, the
\* fields of the other query left empty.
UsageResult(by_model, by_day_list, cost, sessions, days) ==
    [status |-> "returned", byModel |-> by_model, byDay |-> by_day_list,
     totalEstimatedCost |-> cost, totalSessions |-> sessions,
     sessions |-> <<>>, total |-> 0, days |-> days]

SessionsResult(rows, total, days) ==
    [status |-> "returned", byModel |-> <<>>, byDay |-> <<>>,
     totalEstimatedCost |-> 0, totalSessions |-> 0,
     sessions |-> rows, total |-> total, days |-> days]

\* An exception that reaches the caller.
Raised(days) ==
    [status |-> "raised", byModel |-> <<>>, byDay |-> <<>>,
     totalEstimatedCost |-> 0, totalSessions |-> 0,
     sessions |-> <<>>, total |-> 0, days |-> days]

\* compute_usage from the line after the loops, on what they accumulated.
UsageSummary(acc, days) ==
    LET by_model == WithCost(DropEmptyModels(acc.by_model))
        by_day_list == SortDesc(DayBuckets(acc.by_day, acc.sessions_by_day), "date")
    IN UsageResult(by_model, by_day_list,
           Round(SumSeq([i \in DOMAIN by_model |-> by_model[i][2].estimatedCost]), 100),
           SumSeq([i \in DOMAIN acc.sessions_by_day |-> acc.sessions_by_day[i][2]]),
           days)

compute_usage(tree, days) ==
    IF tree.root = "absent" THEN UsageResult(<<>>, <<>>, 0, 0, days)
    ELSE IF CutoffRaises(days) THEN Raised(days)
    ELSE IF tree.root = "unlistable" THEN Raised(days)
    ELSE UsageSummary(UsageProjects(EmptyAcc, tree.projects, Cutoff(days)), days)

\* -------------------------------------------------------- compute_sessions
NoTs == [kind |-> "none", at |-> 0]

\* The loop over the lines of one session file: the timestamps, the message
\* count and the per-model tallies, and whether an exception left the loop.
RECURSIVE SessionLines(_, _)
SessionLines(st, lines) ==
    IF lines = <<>> THEN st
    ELSE LET line == Head(lines) IN
         IF line.json = "blank" THEN SessionLines(st, Tail(lines))
         ELSE IF ~line.hasTs /\ ~line.hasUsage /\ ~line.hasType
         THEN SessionLines(st, Tail(lines))
         ELSE IF line.json = "invalid" THEN SessionLines(st, Tail(lines))
         ELSE IF line.json = "value" THEN [st EXCEPT !.raised = TRUE]
         ELSE LET ts == [kind |-> line.ts, at |-> line.at]
                  seen == line.hasTs /\ line.ts # "absent"
                  st1 == [st EXCEPT
                            !.first_ts = IF seen /\ st.first_ts = NoTs THEN ts ELSE @,
                            !.last_ts = IF seen THEN ts ELSE @,
                            !.msg_count = IF line.hasType /\ line.type \in {"user", "assistant"}
                                          THEN @ + 1 ELSE @]
                  e == RecordEffect(line)
              IN IF ~line.hasUsage \/ e.kind = "skip" THEN SessionLines(st1, Tail(lines))
                 ELSE IF e.kind = "add"
                 THEN SessionLines([st1 EXCEPT !.by_model = Accumulate(@, e.model, e.tally)],
                                   Tail(lines))
                 ELSE [st1 EXCEPT !.raised = TRUE]

\* PrimaryModel, below, with the last of the keys that tie.
PrimaryModelLast(by_model) ==
    LET sum(i) == by_model[i][2].input + by_model[i][2].output
        best == CHOOSE i \in DOMAIN by_model :
                    /\ \A j \in DOMAIN by_model : sum(j) <= sum(i)
                    /\ \A j \in (i + 1)..Len(by_model) : sum(j) < sum(i)
    IN by_model[best][1]

\* max(by_model, key=lambda m: input + output): the first key, in the dict's
\* order, whose sum no other key exceeds.
PrimaryModel(by_model) ==
    LET sum(i) == by_model[i][2].input + by_model[i][2].output
        best == CHOOSE i \in DOMAIN by_model :
                    /\ \A j \in DOMAIN by_model : sum(j) <= sum(i)
                    /\ \A j \in 1..(i - 1) : sum(j) < sum(i)
    IN by_model[best][1]

\* The body of the loop over the session files, with its try/except: the rows
\* the file adds to sessions, one or none.
SessionRows(file, project_display, cutoff) ==
    IF file.state = "gone" THEN <<>>
    ELSE IF file.mtime < cutoff THEN <<>>
    ELSE IF file.state = "unreadable" THEN <<>>
    ELSE LET st == SessionLines([by_model |-> <<>>, first_ts |-> NoTs, last_ts |-> NoTs,
                                 msg_count |-> 0, raised |-> FALSE], file.lines)
             by_model == DropEmptyModels(st.by_model)
             dated == IF st.last_ts # NoTs THEN st.last_ts
                      ELSE IF st.first_ts # NoTs THEN st.first_ts
                      ELSE [kind |-> "at", at |-> file.mtime]
         IN IF st.raised THEN <<>>
            ELSE IF by_model = <<>> THEN <<>>
            ELSE IF dated.kind = IllTyped THEN <<>>
            ELSE <<[sessionId |-> file.name,
                    project |-> project_display,
                    date |-> DayOf(dated.at),
                    primaryModel |-> PrimaryModel(by_model),
                    totalInput |-> SumSeq([i \in DOMAIN by_model |-> by_model[i][2].input]),
                    totalOutput |-> SumSeq([i \in DOMAIN by_model |-> by_model[i][2].output]),
                    msgCount |-> st.msg_count,
                    estimatedCost |->
                        Round(SumSeq([i \in DOMAIN by_model |->
                                        _cost(by_model[i][1], by_model[i][2])]), 10000),
                    mtime |-> file.mtime]>>

RECURSIVE SessionFiles(_, _, _)
SessionFiles(files, project_display, cutoff) ==
    IF files = <<>> THEN <<>>
    ELSE SessionRows(Head(files), project_display, cutoff)
         \o SessionFiles(Tail(files), project_display, cutoff)

RECURSIVE SessionProjects(_, _, _)
SessionProjects(fs, projects, cutoff) ==
    IF projects = <<>> THEN <<>>
    ELSE LET p == Head(projects) IN
         (IF p.kind = "dir"
          THEN SessionFiles(p.files, _decode_project_folder(fs, p.name), cutoff)
          ELSE <<>>)
         \o SessionProjects(fs, Tail(projects), cutoff)

\* The sort below in ascending order.
SortSessionsAscending(sessions) == SortAsc(sessions, "mtime")

\* sessions.sort(key=lambda s: s['mtime'], reverse=True)
SortSessions(sessions) == SortDesc(sessions, "mtime")

\* {'sessions': sessions[:limit], 'total': len(sessions), 'days': days}
SessionsSummary(sessions, days, limit) ==
    SessionsResult(Slice(SortSessions(sessions), limit), Len(sessions), days)

compute_sessions(fs, tree, days, limit) ==
    IF tree.root = "absent" THEN SessionsResult(<<>>, 0, days)
    ELSE IF CutoffRaises(days) THEN Raised(days)
    ELSE IF tree.root = "unlistable" THEN Raised(days)
    ELSE SessionsSummary(SessionProjects(fs, tree.projects, Cutoff(days)), days, limit)

\* ---------------------------------------------------------------- variables
VARIABLES
    costCall,    \* the harness of _cost: its arguments and what it returned
    decodeCall,  \* the harness of _decode_project_folder: argument and result
    fs,          \* the entries that exist below the home directory
    tree,        \* the log tree ~/.claude/projects
    call,        \* the query called last: which, and its arguments
    result,      \* what that query returned
    scan         \* where a query that runs beside another process stands

vars == <<costCall, decodeCall, fs, tree, call, result, scan>>

\* -------------------------------------------------- the values of the harness
\* The home directory alone.
HomeOnly == (<<<<"h">>>> :> "dir")

SegA == <<"a">>
SegB == <<"b">>
SegAB == <<"a", "-", "b">>

\* The file systems: the home directory with any of ~/a, ~/b, ~/a-b and ~/a/b
\* below it, ~/b a directory or a plain file.
FileSystems ==
    {HomeOnly @@ [p \in S |-> IF p = <<<<"h">>, SegB>> THEN kb ELSE "dir"] :
        S \in {T \in SUBSET {<<<<"h">>, SegA>>, <<<<"h">>, SegB>>,
                             <<<<"h">>, SegAB>>, <<<<"h">>, SegA, SegB>>} :
                  <<<<"h">>, SegA, SegB>> \in T => <<<<"h">>, SegA>> \in T},
        kb \in {"dir", "file"}}

RECURSIVE SeqsUpTo(_, _)
SeqsUpTo(S, n) ==
    IF n = 0 THEN {<<>>}
    ELSE LET shorter == SeqsUpTo(S, n - 1) IN
         shorter \cup {Append(q, x) : q \in shorter, x \in S}

\* The folder names: every short name over the alphabet, and the encoded home
\* prefix followed by up to MaxParts tokens joined by hyphens.
FolderNames ==
    SeqsUpTo({"-", "h", "a"}, MaxNameLen)
    \cup {HomePrefix \o Join(parts, "-") :
            parts \in SeqsUpTo({<<>>, SegA, SegB}, MaxParts) \ {<<>>}}

NoDecode == [folder_name |-> <<>>, decoded |-> <<>>, called |-> FALSE]
NoCall == [fn |-> "none", days |-> 0, limit |-> 0]
NoTree == [root |-> "absent", projects |-> <<>>]
NoScan == [pc |-> "idle", projects |-> <<>>, project |-> <<>>, files |-> <<>>,
           acc |-> EmptyAcc, rows |-> <<>>, writes |-> 0]

\* ------------------------------------------------------- the log trees
Line(json, hasUsage, hasTs, hasType, ts, at, type, model, message, msgModel, usage, tally, bad) ==
    [json |-> json, hasUsage |-> hasUsage, hasTs |-> hasTs, hasType |-> hasType,
     ts |-> ts, at |-> at, type |-> type, model |-> model, message |-> message,
     msgModel |-> msgModel, usage |-> usage, tally |-> tally, bad |-> bad]

\* An assistant message with a usage payload: timestamp ts ("absent" or "at"
\* the instant at), top-level model, and the four counters.
Record(ts, at, model, tally) ==
    Line("object", TRUE, ts # "absent", TRUE, ts, at, "assistant", model, "dict", "",
         "dict", tally, {})

\* The instants the records and the files are stamped with: now, the tick
\* before, the tick before the instant one day back (the same calendar day as
\* that instant) and the instant two days back.
Recent == Now - 1
DayBackEarly == Now - TicksPerDay - 1
TwoDaysBack == Now - 2 * TicksPerDay
Stamps == {Now, Recent, DayBackEarly, TwoDaysBack}

Opus == "claude-opus-4-6"

\* Well-formed usage records.
GoodLines ==
    {Record("at", t, Opus, Tally(MaxTok, 0, 0, 0)) : t \in Stamps}
    \cup {Record("absent", 0, Opus, Tally(MaxTok, 0, 0, 0))}
    \cup {Record("at", Now, Opus, Tally(i, o, c, 0)) : i, o, c \in 0..MaxTok}
    \cup {Record("at", Now, m, Tally(0, MaxTok, 0, 1)) : m \in {"k2p5", "<synthetic>"}}
    \cup {Record("at", DayBackEarly, "k2p5", Tally(0, 0, MaxTok, 0))}
    \cup {Line("object", TRUE, TRUE, TRUE, "at", Now, "assistant", "", "dict", mm,
               "dict", Tally(1, MaxTok, 0, 0), {}) : mm \in {"", "k2p5"}}

\* Lines that are no usage record, or a faulty one: an empty line, a user
\* message without usage, text that is no JSON, a JSON list, a message that is
\* no object, a numeric timestamp, a numeric model, a usage payload that is a
\* string, none at all, and a counter that is a string.
OtherLines ==
    {Line("blank", FALSE, FALSE, FALSE, "absent", 0, "", "", "absent", "", "absent",
          ZeroTally, {}),
     Line("object", FALSE, TRUE, TRUE, "at", Now, "user", "", "dict", "", "absent",
          ZeroTally, {}),
     Line("invalid", TRUE, FALSE, FALSE, "absent", 0, "", "", "absent", "", "absent",
          ZeroTally, {}),
     Line("value", TRUE, FALSE, FALSE, "absent", 0, "", "", "absent", "", "absent",
          ZeroTally, {}),
     Line("object", TRUE, TRUE, TRUE, "at", Now, "assistant", Opus, "nondict", "",
          "absent", ZeroTally, {}),
     Line("object", TRUE, TRUE, TRUE, IllTyped, 0, "assistant", Opus, "dict", "",
          "dict", Tally(1, 1, 0, 0), {}),
     Line("object", TRUE, TRUE, TRUE, "at", Now, "assistant", IllTyped, "dict", "",
          "dict", Tally(1, 1, 0, 0), {}),
     Line("object", TRUE, TRUE, TRUE, "at", Now, "assistant", Opus, "dict", "",
          IllTyped, ZeroTally, {}),
     Line("object", TRUE, TRUE, TRUE, "at", Now, "assistant", Opus, "dict", "",
          "absent", ZeroTally, {}),
     Line("object", TRUE, TRUE, TRUE, "at", Now, "assistant", Opus, "dict", "",
          "dict", Tally(0, 1, 0, 0), {"input"}),
     Line("object", TRUE, TRUE, TRUE, "at", Now, "assistant", Opus, "dict", "",
          "dict", Tally(1, 0, 0, 0), {"output"})}

Lines == GoodLines \cup OtherLines

File(name, mtime, state, lines) ==
    [name |-> name, mtime |-> mtime, state |-> state, lines |-> lines]

Project(name, kind, files) == [name |-> name, kind |-> kind, files |-> files]

\* The session file under study: up to two lines of any kind, or a file that
\* cannot be opened; modified now or before the instant one day back.
Mtimes == {Now, DayBackEarly}

StudyFiles ==
    {File("s1", mt, "ok", ls) : mt \in Mtimes, ls \in SeqsUpTo(Lines, 2)}
    \cup {File("s1", mt, "unreadable", <<>>) : mt \in Mtimes}

\* A second session file beside it: one record of the same model, dated now or
\* before the window.
OtherFiles ==
    {File("s2", mt, "ok", <<Record("at", t, Opus, Tally(MaxTok, MaxTok, 0, 0))>>) :
        mt \in Mtimes, t \in {Now, DayBackEarly}}

ProjectP == <<"p">>
ProjectHomeA == HomePrefix \o SegA

\* A session file of one well-formed record dated like the file.
PlainFile(name, mtime) ==
    File(name, mtime, "ok", <<Record("at", mtime, Opus, Tally(MaxTok, MaxTok, 0, 0))>>)

\* The log trees: no root directory; a root directory that is empty or holds a
\* plain file only; one project with the file under study, alone or followed
\* by the second file; and two projects with three plain session files.
Trees ==
    {NoTree,
     [root |-> "dir", projects |-> <<>>],
     [root |-> "dir", projects |-> <<Project(ProjectP, "file", <<>>)>>]}
    \cup {[root |-> "dir", projects |-> <<Project(ProjectP, "dir", <<f>>)>>] :
            f \in StudyFiles}
    \cup {[root |-> "dir", projects |-> <<Project(ProjectP, "dir", <<f, g>>)>>] :
            f \in StudyFiles, g \in OtherFiles}
    \cup {[root |-> "dir",
           projects |-> <<Project(ProjectP, "dir", <<PlainFile("s1", a), PlainFile("s2", b)>>),
                          Project(ProjectHomeA, "dir", <<PlainFile("s3", c)>>)>>] :
            a, b, c \in Stamps}

Days == 0..MaxDays
Limits == (0 - 1)..MaxLimit

\* ------------------------------------------------------ the _cost harness

Tallies == [Counters -> 0..MaxCount]

\* Every priced model and one model the table does not know.
CostModels == PricedModels \cup {"unknown-model-xyz"}

NoCost == [model |-> "", usage |-> Tally(0, 0, 0, 0), raised |-> "none",
           before |-> 0, cost |-> 0, called |-> FALSE]

InitCost ==
    /\ \E m \in CostModels, u \in Tallies :
          costCall = [model |-> m, usage |-> u, raised |-> "none",
                      before |-> 0, cost |-> 0, called |-> FALSE]
    /\ decodeCall = NoDecode /\ fs = HomeOnly
    /\ tree = NoTree /\ call = NoCall /\ result = Raised(0) /\ scan = NoScan

\* cost = _cost(model, usage)
CallCost ==
    /\ ~costCall.called
    /\ costCall' = [costCall EXCEPT !.cost = _cost(costCall.model, costCall.usage),
                                    !.called = TRUE]
    /\ UNCHANGED <<decodeCall, fs, tree, call, result, scan>>

\* usage[k] += 1; cost = _cost(model, usage), the cost before it kept aside.
RaiseCounter(k) ==
    /\ costCall.called
    /\ costCall.usage[k] < MaxCount
    /\ LET u == [costCall.usage EXCEPT ![k] = @ + 1] IN
       costCall' = [costCall EXCEPT !.usage = u, !.raised = k,
                                    !.before = costCall.cost,
                                    !.cost = _cost(costCall.model, u)]
    /\ UNCHANGED <<decodeCall, fs, tree, call, result, scan>>

NextCost == CallCost \/ \E k \in Counters : RaiseCounter(k)

SpecCost == InitCost /\ [][NextCost]_vars

\* ---------------------------------- the _decode_project_folder harness
InitDecode ==
    /\ fs \in FileSystems
    /\ \E n \in FolderNames : decodeCall = [folder_name |-> n, decoded |-> <<>>, called |-> FALSE]
    /\ costCall = NoCost
    /\ tree = NoTree /\ call = NoCall /\ result = Raised(0) /\ scan = NoScan

\* decoded = _decode_project_folder(folder_name)
CallDecode ==
    /\ ~decodeCall.called
    /\ decodeCall' = [decodeCall EXCEPT
                        !.decoded = _decode_project_folder(fs, decodeCall.folder_name),
                        !.called = TRUE]
    /\ UNCHANGED <<costCall, fs, tree, call, result, scan>>

\* Another process creates or removes ~/a between two calls.
TouchHome ==
    /\ decodeCall.called
    /\ fs' \in {f \in FileSystems : DOMAIN f \ {<<<<"h">>, SegA>>} = DOMAIN fs \ {<<<<"h">>, SegA>>}
                                     /\ DOMAIN f # DOMAIN fs
                                     /\ \A p \in DOMAIN f \cap DOMAIN fs : f[p] = fs[p]}
    /\ decodeCall' = [decodeCall EXCEPT !.decoded = <<>>, !.called = FALSE]
    /\ UNCHANGED <<costCall, tree, call, result, scan>>

NextDecode == CallDecode \/ TouchHome

SpecDecode == InitDecode /\ [][NextDecode]_vars

\* ------------------------------------------------------------ the queries
\* One query over one log tree.
Init ==
    /\ tree \in Trees
    /\ fs = HomeOnly
    /\ call = NoCall /\ result = Raised(0) /\ scan = NoScan
    /\ costCall = NoCost /\ decodeCall = NoDecode

\* result = compute_usage(days)
CallUsage(days) ==
    /\ call.fn = "none"
    /\ call' = [fn |-> "usage", days |-> days, limit |-> 0]
    /\ result' = compute_usage(tree, days)
    /\ UNCHANGED <<costCall, decodeCall, fs, tree, scan>>

\* result = compute_sessions(days, limit)
CallSessions(days, limit) ==
    /\ call.fn = "none"
    /\ call' = [fn |-> "sessions", days |-> days, limit |-> limit]
    /\ result' = compute_sessions(fs, tree, days, limit)
    /\ UNCHANGED <<costCall, decodeCall, fs, tree, scan>>

Next ==
    \/ \E days \in Days : CallUsage(days)
    \/ \E days \in Days, limit \in Limits : CallSessions(days, limit)

Spec == Init /\ [][Next]_vars

\* ------------------------------------- a query beside another process
\* The same two queries, one system call at a time, while another process
\* changes the log tree: the directory test, the listing of the root, the
\* directory test and listing of each project, each session file, the summary.
ScanTrees ==
    {NoTree,
     [root |-> "dir", projects |-> <<>>],
     [root |-> "dir",
      projects |-> <<Project(ProjectP, "dir", <<PlainFile("s1", Now), PlainFile("s2", Recent)>>),
                     Project(ProjectHomeA, "dir", <<PlainFile("s3", DayBackEarly)>>)>>]}

InitScan ==
    /\ tree \in ScanTrees
    /\ fs = HomeOnly
    /\ call = NoCall /\ result = Raised(0) /\ scan = NoScan
    /\ costCall = NoCost /\ decodeCall = NoDecode

Names(entries) == [i \in DOMAIN entries |-> entries[i].name]
Named(entries, name) == SelectSeq(entries, LAMBDA e : e.name = name)

\* if not os.path.isdir(claude_dir): return the empty result; then the cutoff
ScanStart(fn, days, limit) ==
    /\ scan.pc = "idle"
    /\ call' = [fn |-> fn, days |-> days, limit |-> limit]
    /\ IF tree.root = "absent"
       THEN /\ result' = (IF fn = "usage" THEN UsageResult(<<>>, <<>>, 0, 0, days)
                          ELSE SessionsResult(<<>>, 0, days))
            /\ scan' = [scan EXCEPT !.pc = "done"]
       ELSE IF CutoffRaises(days)
       THEN result' = Raised(days) /\ scan' = [scan EXCEPT !.pc = "done"]
       ELSE result' = result /\ scan' = [scan EXCEPT !.pc = "listdir"]
    /\ UNCHANGED <<costCall, decodeCall, fs, tree>>

\* os.listdir(claude_dir), outside every try: it raises when the directory is
\* gone or may not be listed.
ScanListDir ==
    /\ scan.pc = "listdir"
    /\ IF tree.root = "dir"
       THEN /\ scan' = [scan EXCEPT !.pc = "project", !.projects = Names(tree.projects)]
            /\ result' = result
       ELSE /\ scan' = [scan EXCEPT !.pc = "done"]
            /\ result' = Raised(call.days)
    /\ UNCHANGED <<costCall, decodeCall, fs, tree, call>>

\* One turn of the loop over the projects: entries that are no directory (any
\* more) are passed over; glob lists the session files of the others, or
\* nothing.
ScanProject ==
    /\ scan.pc = "project" /\ scan.projects # <<>>
    /\ LET name == Head(scan.projects)
           found == Named(tree.projects, name)
       IN IF tree.root # "absent" /\ found # <<>> /\ found[1].kind = "dir"
          THEN scan' = [scan EXCEPT !.pc = "file", !.projects = Tail(@),
                                    !.project = name, !.files = Names(found[1].files)]
          ELSE scan' = [scan EXCEPT !.projects = Tail(@)]
    /\ UNCHANGED <<costCall, decodeCall, fs, tree, call, result>>

\* One turn of the loop over the session files of a project, on the file as it
\* is now; a file that is gone fails getmtime and is passed over.
ScanFile ==
    /\ scan.pc = "file" /\ scan.files # <<>>
    /\ LET project == Named(tree.projects, scan.project)
           found == IF tree.root = "absent" \/ project = <<>> THEN <<>>
                    ELSE Named(project[1].files, Head(scan.files))
           file == IF found = <<>> THEN File(Head(scan.files), 0, "gone", <<>>)
                   ELSE found[1]
       IN scan' = [scan EXCEPT
             !.files = Tail(@),
             !.acc = IF call.fn = "usage" THEN UsageFile(@, file, Cutoff(call.days)) ELSE @,
             !.rows = IF call.fn = "sessions"
                      THEN @ \o SessionRows(file, _decode_project_folder(fs, scan.project),
                                            Cutoff(call.days))
                      ELSE @]
    /\ UNCHANGED <<costCall, decodeCall, fs, tree, call, result>>

\* The session files of the project are exhausted.
ScanNextProject ==
    /\ scan.pc = "file" /\ scan.files = <<>>
    /\ scan' = [scan EXCEPT !.pc = "project"]
    /\ UNCHANGED <<costCall, decodeCall, fs, tree, call, result>>

\* The projects are exhausted: the summary is returned.
ScanReturn ==
    /\ scan.pc = "project" /\ scan.projects = <<>>
    /\ result' = (IF call.fn = "usage" THEN UsageSummary(scan.acc, call.days)
                  ELSE SessionsSummary(scan.rows, call.days, call.limit))
    /\ scan' = [scan EXCEPT !.pc = "done"]
    /\ UNCHANGED <<costCall, decodeCall, fs, tree, call>>

\* The other process, while the query runs: it removes the root directory,
Writing == scan.pc \notin {"idle", "done"} /\ scan.writes < MaxWrites

RemoveRoot ==
    /\ Writing /\ tree.root # "absent"
    /\ tree' = NoTree
    /\ scan' = [scan EXCEPT !.writes = @ + 1]
    /\ UNCHANGED <<costCall, decodeCall, fs, call, result>>

\* takes away the permission to list it,
LockRoot ==
    /\ Writing /\ tree.root = "dir"
    /\ tree' = [tree EXCEPT !.root = "unlistable"]
    /\ scan' = [scan EXCEPT !.writes = @ + 1]
    /\ UNCHANGED <<costCall, decodeCall, fs, call, result>>

\* replaces a project directory by a plain file,
ReplaceProject(i) ==
    /\ Writing /\ tree.root # "absent"
    /\ i \in DOMAIN tree.projects /\ tree.projects[i].kind = "dir"
    /\ tree' = [tree EXCEPT !.projects[i] = Project(@.name, "file", <<>>)]
    /\ scan' = [scan EXCEPT !.writes = @ + 1]
    /\ UNCHANGED <<costCall, decodeCall, fs, call, result>>

\* removes a session file,
RemoveFile(i, j) ==
    /\ Writing /\ tree.root # "absent"
    /\ i \in DOMAIN tree.projects /\ j \in DOMAIN tree.projects[i].files
    /\ tree' = [tree EXCEPT !.projects[i].files =
                    SubSeq(@, 1, j - 1) \o SubSeq(@, j + 1, Len(@))]
    /\ scan' = [scan EXCEPT !.writes = @ + 1]
    /\ UNCHANGED <<costCall, decodeCall, fs, call, result>>

\* or takes away the permission to read one.
LockFile(i, j) ==
    /\ Writing /\ tree.root # "absent"
    /\ i \in DOMAIN tree.projects /\ j \in DOMAIN tree.projects[i].files
    /\ tree.projects[i].files[j].state = "ok"
    /\ tree' = [tree EXCEPT !.projects[i].files[j].state = "unreadable"]
    /\ scan' = [scan EXCEPT !.writes = @ + 1]
    /\ UNCHANGED <<costCall, decodeCall, fs, call, result>>

NextScan ==
    \/ \E fn \in {"usage", "sessions"}, days \in Days, limit \in Limits :
          ScanStart(fn, days, IF fn = "usage" THEN 0 ELSE limit)
    \/ ScanListDir
    \/ ScanProject
    \/ ScanFile
    \/ ScanNextProject
    \/ ScanReturn
    \/ RemoveRoot
    \/ LockRoot
    \/ \E i \in 1..2 : ReplaceProject(i)
    \/ \E i \in 1..2, j \in 1..2 : RemoveFile(i, j)
    \/ \E i \in 1..2, j \in 1..2 : LockFile(i, j)

SpecScan == InitScan /\ [][NextScan]_vars

\* ================================================================== claims

\* C2 as stated: _cost is non-decreasing in each of the four counters: a call
\* made after any one counter was raised, the other three and the model kept,
\* never returns less than the call before it.
C2_MonotoneInEveryCounter ==
    costCall.raised # "none" => costCall.cost >= costCall.before

\* C2 as amended: _cost is non-decreasing in input and in output; raising
\* cacheRead, which moves a token from the input rate to the lower cacheRead
\* rate, is what lowers it.
C2_MonotoneInInputAndOutput ==
    costCall.raised \in {"input", "output"} => costCall.cost >= costCall.before

\* C2 witness: input was raised in a tally that holds cached tokens, and the
\* cost went up.
C2_Witness ==
    /\ costCall.raised = "input"
    /\ costCall.usage.cacheRead > 0
    /\ costCall.cost > costCall.before

\* C3: _cost never returns a negative amount, whatever the model and the tally.
C3_CostNonNegative ==
    costCall.called => costCall.cost >= 0

\* C3 witness: a call with more cached tokens than input tokens, whose net
\* input is clamped to zero, returned the price of the cached tokens alone.
C3_Witness ==
    /\ costCall.called
    /\ costCall.usage.cacheRead + costCall.usage.cacheWrite > costCall.usage.input
    /\ costCall.usage.output = 0
    /\ costCall.cost = costCall.usage.cacheRead * Rates(costCall.model).cacheRead
                       + costCall.usage.cacheWrite * Rates(costCall.model).cacheWrite
    /\ costCall.cost > 0

\* C10: a folder name that is not the encoded home directory and does not start
\* with the encoded home directory followed by a hyphen is returned unchanged,
\* whatever exists below the home directory.
C10_OtherNamesUnchanged ==
    (/\ decodeCall.called
     /\ decodeCall.folder_name # HomeEncoded
     /\ ~StartsWith(decodeCall.folder_name, HomeEncoded \o <<"-">>))
        => decodeCall.decoded = decodeCall.folder_name

\* C10 witness: a name that starts with the encoded home directory but not
\* with the hyphen after it, decoded while ~/a exists, came back unchanged.
C10_Witness ==
    /\ decodeCall.called
    /\ decodeCall.folder_name = HomeEncoded \o <<"a">>
    /\ <<<<"h">>, SegA>> \in DOMAIN fs
    /\ decodeCall.decoded = decodeCall.folder_name

\* The decoding C11 describes. tokens are the pieces of the remainder, at the
\* number of them consumed, segments the non-empty segments accepted so far.
\* A run of tokens exists under the path built so far when that path is a
\* directory and the run, joined by hyphens, is empty or names an entry of it.
\* The path is written relative to home: the accepted segments joined by
\* slashes ("." when there is none), the final literal segment after them.
RECURSIVE GreedyDecode(_, _, _, _)
GreedyDecode(files, tokens, at, segments) ==
    LET under == <<<<"h">>>> \o segments
        Run(j) == Join(SubSeq(tokens, at + 1, j), "-")
        ends == {j \in (at + 1)..Len(tokens) :
                    /\ under \in DOMAIN files /\ files[under] = "dir"
                    /\ (Run(j) = <<>> \/ Append(under, Run(j)) \in DOMAIN files)}
        longest == CHOOSE j \in ends : \A k \in ends : k <= j
    IN IF at = Len(tokens)
       THEN IF segments = <<>> THEN <<".">> ELSE Join(segments, "/")
       ELSE IF ends = {}
       THEN IF segments = <<>> THEN Run(Len(tokens))
            ELSE Join(segments, "/") \o <<"/">> \o Run(Len(tokens))
       ELSE GreedyDecode(files, tokens, longest,
                         IF Run(longest) = <<>> THEN segments
                         ELSE Append(segments, Run(longest)))

\* C11: a folder name that starts with the encoded home directory and a hyphen
\* is decoded to "~/" followed by the path that the longest existing runs of
\* tokens build, any tokens left when no run exists joined by hyphens as one
\* final literal segment, written relative to home.
C11_GreedyLongestSegments ==
    (/\ decodeCall.called
     /\ StartsWith(decodeCall.folder_name, HomeEncoded \o <<"-">>))
        => decodeCall.decoded =
             <<"~", "/">> \o GreedyDecode(fs,
                 Split(DropFirst(decodeCall.folder_name, Len(HomeEncoded) + 1), "-"),
                 0, <<>>)


\* ------------------------------------------------ claims about the queries
Returned == call.fn # "none" /\ result.status = "returned"

\* The first session file of the first project, and the tree without it.
HasStudy ==
    /\ tree.root = "dir" /\ tree.projects # <<>>
    /\ tree.projects[1].kind = "dir" /\ tree.projects[1].files # <<>>
StudyFile == tree.projects[1].files[1]
WithoutStudy == [tree EXCEPT !.projects[1].files = Tail(@)]

\* What the query called returns on another tree.
Answer(t) ==
    IF call.fn = "usage" THEN compute_usage(t, call.days)
    ELSE compute_sessions(fs, t, call.days, call.limit)

\* The fields of a result the claims compare, a dict taken as what it holds.
View(r) ==
    [byModel |-> DictMap(r.byModel),
     byDay |-> [i \in DOMAIN r.byDay |->
                  [date |-> r.byDay[i].date, models |-> DictMap(r.byDay[i].models),
                   sessions |-> r.byDay[i].sessions]],
     totalEstimatedCost |-> r.totalEstimatedCost, totalSessions |-> r.totalSessions,
     sessions |-> r.sessions, total |-> r.total]

\* The usage a result reports: byModel, the total cost, and the dates and
\* models of byDay.
UsageView(r) ==
    [byModel |-> DictMap(r.byModel),
     byDay |-> [i \in DOMAIN r.byDay |->
                  [date |-> r.byDay[i].date, models |-> DictMap(r.byDay[i].models)]],
     totalEstimatedCost |-> r.totalEstimatedCost]

\* The file under study holds one usage record and nothing else, stamped
\* before now - days.
OldRecordOnly ==
    /\ HasStudy /\ StudyFile.state = "ok"
    /\ Len(StudyFile.lines) = 1
    /\ StudyFile.lines[1] \in GoodLines
    /\ StudyFile.lines[1].ts = "at"
    /\ StudyFile.lines[1].at < Cutoff(call.days)

\* C1 as stated: a session file whose only usage record is older than
\* now - days contributes nothing to either query, whatever its modification
\* time: every field of the result is what it is without the file.
C1_OldRecordContributesNothing ==
    (Returned /\ OldRecordOnly) => View(result) = View(Answer(WithoutStudy))

\* C1 as amended: such a file contributes nothing to either query when it was
\* itself modified before now - days; when it was modified later and its record
\* is dated before the calendar day of now - days, it contributes nothing to
\* byModel, to totalEstimatedCost and to the dates and models of byDay of
\* compute_usage.
C1_OldFileOrOldDateContributesNothing ==
    (Returned /\ OldRecordOnly) =>
        /\ StudyFile.mtime < Cutoff(call.days)
              => View(result) = View(Answer(WithoutStudy))
        /\ (call.fn = "usage"
            /\ DayOf(StudyFile.lines[1].at) < DayOf(Cutoff(call.days)))
              => UsageView(result) = UsageView(Answer(WithoutStudy))

\* C1 witness: compute_usage met a file modified within the window whose only
\* record is dated before the cutoff day, beside a file with usage in the
\* window: both files were counted as sessions, one model was reported.
C1_Witness ==
    /\ Returned /\ call.fn = "usage" /\ OldRecordOnly
    /\ StudyFile.mtime >= Cutoff(call.days)
    /\ DayOf(StudyFile.lines[1].at) < DayOf(Cutoff(call.days))
    /\ StudyFile.lines[1].tally.input > 0
    /\ Len(result.byModel) = 1
    /\ result.totalSessions = 2

\* C4: every byDay bucket of compute_usage holds at least one model.
C4_NoEmptyDayBucket ==
    (Returned /\ call.fn = "usage") =>
        \A i \in DOMAIN result.byDay : result.byDay[i].models # <<>>

\* C5: no model entry of byModel and no model entry of a byDay bucket has
\* input + output = 0.
C5_NoZeroUsageEntry ==
    (Returned /\ call.fn = "usage") =>
        /\ \A i \in DOMAIN result.byModel :
              result.byModel[i][2].input + result.byModel[i][2].output > 0
        /\ \A d \in DOMAIN result.byDay : \A i \in DOMAIN result.byDay[d].models :
              result.byDay[d].models[i][2].input + result.byDay[d].models[i][2].output > 0

\* C5 witness: a record of k2p5 with cache tokens only was accumulated beside
\* usage of another model, and the result reports the other model alone.
C5_Witness ==
    /\ Returned /\ call.fn = "usage" /\ HasStudy
    /\ call.days = 2
    /\ StudyFile.state = "ok" /\ Len(StudyFile.lines) = 2
    /\ StudyFile.lines[2] = Record("at", DayBackEarly, "k2p5", Tally(0, 0, MaxTok, 0))
    /\ Len(result.byModel) = 1 /\ result.byModel[1][1] = Opus
    /\ \E d \in DOMAIN result.byDay :
          result.byDay[d].date = DayOf(DayBackEarly) /\ Len(result.byDay[d].models) = 1

\* Every row compute_sessions collects before it sorts them.
Retained == SessionProjects(fs, tree.projects, Cutoff(call.days))
RowsOf(rows) == {rows[i] : i \in DOMAIN rows}

\* C6: with limit >= 0, compute_sessions returns min(limit, total) of the
\* retained rows, no row twice, in descending order of modification time, no
\* omitted row modified later than a returned one; total counts every
\* retained row.
C6_FirstRowsByRecency ==
    (Returned /\ call.fn = "sessions" /\ call.limit >= 0 /\ tree.root = "dir") =>
        LET rows == result.sessions IN
        /\ result.total = Len(Retained)
        /\ Len(rows) = Min(call.limit, result.total)
        /\ RowsOf(rows) \subseteq RowsOf(Retained)
        /\ \A i, j \in DOMAIN rows : i < j => rows[i].sessionId # rows[j].sessionId
        /\ \A i, j \in DOMAIN rows : i < j => rows[i].mtime >= rows[j].mtime
        /\ \A r \in RowsOf(Retained) \ RowsOf(rows) :
              \A i \in DOMAIN rows : r.mtime <= rows[i].mtime

\* C6 witness: three sessions were retained, listed oldest first, and the two
\* modified last were returned, the latest first.
C6_Witness ==
    /\ Returned /\ call.fn = "sessions" /\ call.limit = 2
    /\ result.total = 3
    /\ Len(Retained) = 3
    /\ Retained[1].mtime < Retained[2].mtime /\ Retained[2].mtime < Retained[3].mtime
    /\ Len(result.sessions) = 2
    /\ result.sessions[1].sessionId = "s3" /\ result.sessions[2].sessionId = "s2"

\* C8: a line that cannot be turned into a usage record never prevents a
\* well-formed usage record on the next line of the same file from being
\* accumulated: that record's tokens are part of its model's total in
\* compute_usage, and of its session's row in compute_sessions.
C8_FaultyLineSkippedAlone ==
    (/\ Returned /\ HasStudy
     /\ StudyFile.state = "ok" /\ StudyFile.mtime >= Cutoff(call.days)
     /\ Len(StudyFile.lines) = 2
     /\ StudyFile.lines[1] \in OtherLines
     /\ StudyFile.lines[2] \in GoodLines
     /\ StudyFile.lines[2].model = Opus
     /\ StudyFile.lines[2].tally.input > 0)
    => LET good == StudyFile.lines[2] IN
       IF call.fn = "usage"
       THEN (good.ts = "at" /\ DayOf(good.at) >= DayOf(Cutoff(call.days)))
              => /\ DictHas(result.byModel, Opus)
                 /\ DictGet(result.byModel, Opus).input >= good.tally.input
       ELSE call.limit = MaxLimit
              => \E i \in DOMAIN result.sessions :
                    /\ result.sessions[i].sessionId = "s1"
                    /\ result.sessions[i].totalInput >= good.tally.input

NoProjects ==
    tree.root = "absent" \/ \A i \in DOMAIN tree.projects : tree.projects[i].kind # "dir"

EmptyAnswer ==
    IF call.fn = "usage" THEN UsageResult(<<>>, <<>>, 0, 0, call.days)
    ELSE SessionsResult(<<>>, 0, call.days)

\* C9 as stated: with the root directory absent, or present without a project
\* subdirectory, both queries return their empty result for every days value.
C9_EmptyTreeEmptyResult ==
    (call.fn # "none" /\ NoProjects) => result = EmptyAnswer

\* ---------------------------------------------- claims about the primary model
\* The session files of the tree, and the one a row was made from.
AllFiles ==
    UNION {{tree.projects[i].files[j] : j \in DOMAIN tree.projects[i].files} :
              i \in DOMAIN tree.projects}

FileOfRow(row) == CHOOSE f \in AllFiles : f.name = row.sessionId

\* A line that is a usage record of a listed model: an object with a message
\* object, a usage payload of well-typed counters and a model name that is
\* not synthetic; the model is the top-level one, else the message's, else
\* "unknown".
ModelOfLine(line) ==
    IF line.model # "" THEN line.model
    ELSE IF line.msgModel # "" THEN line.msgModel ELSE "unknown"

IsUsageRecordOf(line, m) ==
    /\ line.json = "object" /\ line.hasUsage
    /\ line.message = "dict" /\ line.usage = "dict" /\ line.bad = {}
    /\ ModelOfLine(line) = m /\ m # IllTyped /\ m # "<synthetic>"

ModelsOfFile(f) ==
    {ModelOfLine(f.lines[i]) : i \in {k \in DOMAIN f.lines :
                                        IsUsageRecordOf(f.lines[k], ModelOfLine(f.lines[k]))}}

\* The input + output volume of model m in file f, and the line of its first
\* usage record.
VolumeIn(f, m) ==
    SumSeq([i \in DOMAIN f.lines |->
              IF IsUsageRecordOf(f.lines[i], m)
              THEN f.lines[i].tally.input + f.lines[i].tally.output ELSE 0])

FirstRecordOf(f, m) ==
    CHOOSE i \in DOMAIN f.lines :
        /\ IsUsageRecordOf(f.lines[i], m)
        /\ \A j \in 1..(i - 1) : ~IsUsageRecordOf(f.lines[j], m)

\* C12: the primaryModel of every row compute_sessions returns is a retained
\* model of that session (input + output > 0) whose input + output sum no
\* other retained model exceeds, and every other retained model with the same
\* sum has its first usage record later in the file.
C12_PrimaryModelLargestThenFirst ==
    (Returned /\ call.fn = "sessions") =>
        \A r \in DOMAIN result.sessions :
            LET row == result.sessions[r]
                f == FileOfRow(row)
                p == row.primaryModel
                kept == {m \in ModelsOfFile(f) : VolumeIn(f, m) > 0}
            IN /\ p \in kept
               /\ \A m \in kept : VolumeIn(f, m) <= VolumeIn(f, p)
               /\ \A m \in kept \ {p} :
                     VolumeIn(f, m) = VolumeIn(f, p)
                        => FirstRecordOf(f, p) < FirstRecordOf(f, m)

\* C12 witness: a returned row of a session whose two records, of two models,
\* carry the same input + output sum, with the model of the first record as
\* its primary model.
C12_Witness ==
    /\ Returned /\ call.fn = "sessions"
    /\ \E r \in DOMAIN result.sessions :
          LET f == FileOfRow(result.sessions[r]) IN
          /\ Len(f.lines) = 2
          /\ ModelsOfFile(f) = {ModelOfLine(f.lines[1]), ModelOfLine(f.lines[2])}
          /\ ModelOfLine(f.lines[1]) # ModelOfLine(f.lines[2])
          /\ VolumeIn(f, ModelOfLine(f.lines[1])) = VolumeIn(f, ModelOfLine(f.lines[2]))
          /\ VolumeIn(f, ModelOfLine(f.lines[1])) > 0
          /\ result.sessions[r].primaryModel = ModelOfLine(f.lines[1])

\* ------------------------------------- claims about the two views of usage
\* Every usage counter of the tree that is present is an integer.
WellTypedCounters ==
    \A f \in AllFiles : \A i \in DOMAIN f.lines : f.lines[i].bad = {}

\* The sum of counter k of model m over the day buckets of the result.
OverDays(m, k) ==
    SumSeq([d \in DOMAIN result.byDay |->
              IF DictHas(result.byDay[d].models, m)
              THEN DictGet(result.byDay[d].models, m)[k] ELSE 0])

\* C13: when every counter present in the log tree is a non-negative integer,
\* the input total and the output total of every model of byModel are the sums
\* of that model's input and output over the byDay buckets, and every model of
\* a byDay bucket is a model of byModel.
C13_ViewsAgree ==
    (Returned /\ call.fn = "usage" /\ WellTypedCounters) =>
        /\ \A i \in DOMAIN result.byModel :
              /\ result.byModel[i][2].input = OverDays(result.byModel[i][1], "input")
              /\ result.byModel[i][2].output = OverDays(result.byModel[i][1], "output")
        /\ \A d \in DOMAIN result.byDay : \A i \in DOMAIN result.byDay[d].models :
              DictHas(result.byModel, result.byDay[d].models[i][1])

\* C13 witness: one model was used on two days, twice on one of them, and its
\* byModel input is what its two day buckets hold together.
C13_Witness ==
    /\ Returned /\ call.fn = "usage" /\ WellTypedCounters
    /\ Len(result.byDay) = 2
    /\ Len(result.byModel) = 1
    /\ \A d \in 1..2 : /\ DictHas(result.byDay[d].models, Opus)
                       /\ DictGet(result.byDay[d].models, Opus).input > 0
    /\ \E d \in 1..2 : DictGet(result.byDay[d].models, Opus).input > MaxTok
    /\ result.byModel[1][2].input
         = DictGet(result.byDay[1].models, Opus).input
           + DictGet(result.byDay[2].models, Opus).input

\* ------------------------------- claims about a query beside another process
\* C7: whatever another process does to the log tree while a query runs, a
\* query called with a window the calendar holds ends by returning a result
\* structure, never by raising.
C7_NeverRaises ==
    (scan.pc = "done" /\ ~CutoffRaises(call.days)) => result.status = "returned"

====
